---- MODULE Spec2Model ----
(***************************************************************************)
(* The user store of src/index.ts: readUsers / writeUsers over three       *)
(* backends (file, Vercel Blob, Postgres), the form handler POST /users    *)
(* and the reader GET /api/users-file that call them.  The routes over the  *)
(* in-memory users array never reach the store and are left out.           *)
(*                                                                         *)
(* Every await of the source is one step of a request: requests interleave *)
(* only at awaits (single Node event loop), and the synchronous code       *)
(* between two awaits runs inside the step that ends the first await.      *)
(*                                                                         *)
(* Text is a sequence of characters (one-character strings); a stored      *)
(* JSON document is a sequence of tokens.  The whitespace JSON.stringify   *)
(* (.., null, 2) adds between tokens is insignificant to JSON.parse and is *)
(* not represented.                                                        *)
(***************************************************************************)
EXTENDS Integers, Sequences, FiniteSets, TLC

\* ------------------------------------------------------------------ bounds

\* Requests the HTTP server accepts in one behaviour.
MaxReq == 2
\* Longest collection handed to a direct writeUsers call.
MaxLen == 2
\* Largest id in a collection handed to a direct writeUsers call.
MaxUserId == 3

\* The two concurrent requests being served.
Procs == {"p1", "p2"}
\* The single sequential caller of the storage contract.
Caller == "p1"

\* The form bodies submitted, [name, email] as received (a missing field
\* reads as the empty text): two complete ones, one whose name is blank,
\* one without email.
Forms ==
    { [name |-> <<"a">>, email |-> <<"x", " ">>],
      [name |-> <<" ", "b">>, email |-> <<"x">>],
      [name |-> <<" ">>, email |-> <<"x">>],
      [name |-> <<"a">>, email |-> <<>>] }

\* ------------------------------------------------------------------- types

\* type User = { id: number; name: string; email: string }
User(id, name, email) == [id |-> id, name |-> name, email |-> email]

Range(s) == {s[i] : i \in DOMAIN s}

RECURSIVE SeqsUpTo(_, _)
SeqsUpTo(S, n) ==
    IF n = 0 THEN {<<>>}
    ELSE LET shorter == SeqsUpTo(S, n - 1)
         IN  shorter \cup {Append(s, x) : s \in shorter, x \in S}

UniqueIds(us) == \A i, j \in DOMAIN us : us[i].id = us[j].id => i = j

\* The collections of valid User records a caller passes to writeUsers: ids
\* unique and in any order; the users of odd id are named a, the others b.
UserPool ==
    {User(i, IF i % 2 = 1 THEN <<"a">> ELSE <<"b">>, <<"x">>) : i \in 1..MaxUserId}
Collections == {us \in SeqsUpTo(UserPool, MaxLen) : UniqueIds(us)}

\* String.prototype.trim on a sequence of characters.
RECURSIVE TrimStart(_)
TrimStart(s) ==
    IF s # <<>> /\ Head(s) = " " THEN TrimStart(Tail(s)) ELSE s

RECURSIVE TrimEnd(_)
TrimEnd(s) ==
    IF s # <<>> /\ s[Len(s)] = " " THEN TrimEnd(SubSeq(s, 1, Len(s) - 1)) ELSE s

trim(s) == TrimEnd(TrimStart(s))

\* -------------------------------------------------------------------- JSON

Tok(t) == [t |-> t, n |-> 0, s |-> <<>>]
Num(n) == [t |-> "num", n |-> n, s |-> <<>>]
Str(s) == [t |-> "str", n |-> 0, s |-> s]
Key(k) == [t |-> "key", n |-> 0, s |-> <<k>>]

\* One object of the array, keys in property order id, name, email.
ObjToks(u) ==
    << Tok("{"), Key("id"), Num(u.id), Tok(","), Key("name"), Str(u.name),
       Tok(","), Key("email"), Str(u.email), Tok("}") >>

RECURSIVE JoinObjs(_)
JoinObjs(us) ==
    IF us = <<>> THEN <<>>
    ELSE IF Len(us) = 1 THEN ObjToks(us[1])
    ELSE ObjToks(us[1]) \o <<Tok(",")>> \o JoinObjs(Tail(us))

\* JSON.stringify(fileUsers, null, 2)
JSONstringify(us) == <<Tok("[")>> \o JoinObjs(us) \o <<Tok("]")>>

ObjLen == 10

IsObjAt(toks, i) ==
    /\ i + ObjLen - 1 <= Len(toks)
    /\ toks[i] = Tok("{")
    /\ toks[i + 1] = Key("id")
    /\ toks[i + 2].t = "num"
    /\ toks[i + 3] = Tok(",")
    /\ toks[i + 4] = Key("name")
    /\ toks[i + 5].t = "str"
    /\ toks[i + 6] = Tok(",")
    /\ toks[i + 7] = Key("email")
    /\ toks[i + 8].t = "str"
    /\ toks[i + 9] = Tok("}")

ObjAt(toks, i) == User(toks[i + 2].n, toks[i + 5].s, toks[i + 8].s)

SyntaxError == [kind |-> "error", val |-> <<>>]

\* The elements of an array from token i on, up to the closing bracket,
\* which must be the last token of the text.
RECURSIVE ParseElems(_, _)
ParseElems(toks, i) ==
    IF ~IsObjAt(toks, i) \/ i + ObjLen > Len(toks) THEN SyntaxError
    ELSE IF toks[i + ObjLen] = Tok("]")
    THEN IF i + ObjLen = Len(toks)
         THEN [kind |-> "array", val |-> <<ObjAt(toks, i)>>]
         ELSE SyntaxError
    ELSE IF toks[i + ObjLen] = Tok(",")
    THEN LET rest == ParseElems(toks, i + ObjLen + 1)
         IN  IF rest.kind = "array"
             THEN [kind |-> "array", val |-> <<ObjAt(toks, i)>> \o rest.val]
             ELSE SyntaxError
    ELSE SyntaxError

\* JSON.parse on the texts the model stores: arrays of user objects, the
\* empty object, a number, null; everything else is a SyntaxError.  kind is
\* "array", "other" (a JSON value that is no array) or "error" (a throw).
JSONparse(toks) ==
    IF toks = <<>> THEN SyntaxError
    ELSE IF toks[1] = Tok("[")
    THEN IF Len(toks) = 2 /\ toks[2] = Tok("]")
         THEN [kind |-> "array", val |-> <<>>]
         ELSE ParseElems(toks, 2)
    ELSE IF toks = <<Tok("{"), Tok("}")>> THEN [kind |-> "other", val |-> <<>>]
    ELSE IF Len(toks) = 1 /\ toks[1].t \in {"num", "null"}
    THEN [kind |-> "other", val |-> <<>>]
    ELSE SyntaxError

\* try { const parsed = JSON.parse(raw);
\*       return Array.isArray(parsed) ? parsed : []; } catch { return []; }
ParsedOrEmpty(raw) ==
    LET parsed == JSONparse(raw)
    IN  IF parsed.kind = "array" THEN parsed.val ELSE <<>>

\* ------------------------------------------------------------------- state

VARIABLES
    env,          \* process.env: which configuration variables are set
    dirExists,    \* dataDir exists
    fileExists,   \* dataFile exists
    fileText,     \* content of dataFile
    blobExists,   \* the blob store holds an object at blobKey
    blobText,     \* its content
    tableExists,  \* table users exists
    rows,         \* rows of table users
    dbSeq,        \* next value of the SERIAL sequence of users.id
    pc,           \* per request: the await it is suspended at
    ctx,          \* per request: the call site of the pending store call
    req,          \* per request: [kind, name, email] after trimming
    cur,          \* per request: currentUsers / fileUsers
    idx,          \* per request: position of the for loop of writeUsersToDb
    touched,      \* per request: backends whose I/O it has called
    status,       \* per request: res.statusCode
    sent,         \* per request: responses sent
    fault,        \* per request: the I/O call of its store calls that failed
    nreq,         \* requests accepted so far
    hist          \* the sequential caller's last calls (see NoHist)

store == <<dirExists, fileExists, fileText, blobExists, blobText,
           tableExists, rows, dbSeq>>
fileVars == <<dirExists, fileExists, fileText>>
blobVars == <<blobExists, blobText>>
dbVars == <<tableExists, rows, dbSeq>>
vars == <<env, dirExists, fileExists, fileText, blobExists, blobText,
          tableExists, rows, dbSeq, pc, ctx, req, cur, idx, touched,
          status, sent, fault, nreq, hist>>

EnvVars == {"POSTGRES_URL", "POSTGRES_PRISMA_URL", "POSTGRES_URL_NON_POOLING",
            "BLOB_READ_WRITE_TOKEN", "VERCEL"}

\* Boolean(process.env.BLOB_READ_WRITE_TOKEN || process.env.VERCEL)
isBlobEnabled == env["BLOB_READ_WRITE_TOKEN"] \/ env["VERCEL"]

\* Boolean(POSTGRES_URL || POSTGRES_PRISMA_URL || POSTGRES_URL_NON_POOLING)
isDbEnabled ==
    env["POSTGRES_URL"] \/ env["POSTGRES_PRISMA_URL"]
        \/ env["POSTGRES_URL_NON_POOLING"]

\* writeUsers with the two tests in the wrong order (C1 is checked against it).
writeUsers_blobFirst ==
    IF isBlobEnabled THEN "w_blob_put"
    ELSE IF isDbEnabled THEN "w_db_ensure"
    ELSE "w_file_write"

\* readUsers: the first await of the backend it dispatches to.
readUsers ==
    IF isDbEnabled THEN "r_db_ensure"
    ELSE IF isBlobEnabled THEN "r_blob_list"
    ELSE "r_file_mkdir"

\* writeUsers: the first await of the backend it dispatches to.
writeUsers ==
    IF isDbEnabled THEN "w_db_ensure"
    ELSE IF isBlobEnabled THEN "w_blob_put"
    ELSE "w_file_write"

\* The literal '[]' written by ensureDataFileExists.
EmptyArrayText == <<Tok("["), Tok("]")>>

BaseUser == User(1, <<"a">>, <<"x">>)

\* Contents a store may hold when the process starts: an empty array, a
\* collection of one user, a truncated document, a document that is no array.
InitTexts ==
    { EmptyArrayText, JSONstringify(<<BaseUser>>),
      <<Tok("["), Tok("{")>>, <<Tok("{"), Tok("}")>> }

NoReq == [kind |-> "none", name |-> <<>>, email |-> <<>>]

\* (name, email) of the records of a collection, in order.
Pairs(us) == [i \in DOMAIN us |-> <<us[i].name, us[i].email>>]

\* What is remembered of the sequential caller's calls:
\*   write    "none", or how its last writeUsers call ended: "pending",
\*            "ok", "failed";
\*   arg      the collection passed to that call;
\*   replaced the (name, email) pairs of the collection written by the
\*            successful writeUsers call that came before it;
\*   read     "none", or how the readUsers call made after it (the last
\*            one) ended: "pending", "ok", "failed";
\*   val      the collection that readUsers call returned;
\*   existed  whether dataFile existed when that readUsers call started;
\*   text     the content of dataFile when it started.
NoHist ==
    [write |-> "none", arg |-> <<>>, replaced |-> {}, read |-> "none",
     val |-> <<>>, existed |-> FALSE, text |-> <<>>]

InitLocals ==
    /\ pc = [p \in Procs |-> "idle"]
    /\ ctx = [p \in Procs |-> "none"]
    /\ req = [p \in Procs |-> NoReq]
    /\ cur = [p \in Procs |-> <<>>]
    /\ idx = [p \in Procs |-> 0]
    /\ touched = [p \in Procs |-> {}]
    /\ status = [p \in Procs |-> 200]
    /\ sent = [p \in Procs |-> 0]
    /\ fault = [p \in Procs |-> "none"]
    /\ nreq = 0
    /\ hist = NoHist

InitFile ==
    \/ dirExists \in BOOLEAN /\ fileExists = FALSE /\ fileText = <<>>
    \/ dirExists = TRUE /\ fileExists = TRUE /\ fileText \in InitTexts

InitBlob ==
    \/ blobExists = FALSE /\ blobText = <<>>
    \/ blobExists = TRUE /\ blobText \in InitTexts

InitDb ==
    \/ tableExists \in BOOLEAN /\ rows = {} /\ dbSeq = 1
    \/ tableExists = TRUE /\ rows = {BaseUser} /\ dbSeq = 2

FreshFile == dirExists = FALSE /\ fileExists = FALSE /\ fileText = <<>>
FreshBlob == blobExists = FALSE /\ blobText = <<>>
FreshDb == tableExists = FALSE /\ rows = {} /\ dbSeq = 1

\* The configurations: every combination of the three signals "a POSTGRES_*
\* variable is set", "BLOB_READ_WRITE_TOKEN is set" and "VERCEL is set".  The
\* first signal is given by POSTGRES_URL when the other two signals agree,
\* by POSTGRES_PRISMA_URL beside the token alone and by
\* POSTGRES_URL_NON_POOLING beside VERCEL alone.
Environments ==
    { e \in [EnvVars -> BOOLEAN] :
        /\ Cardinality({v \in {"POSTGRES_URL", "POSTGRES_PRISMA_URL",
                                "POSTGRES_URL_NON_POOLING"} : e[v]}) <= 1
        /\ e["POSTGRES_URL"] => (e["BLOB_READ_WRITE_TOKEN"] <=> e["VERCEL"])
        /\ e["POSTGRES_PRISMA_URL"] => e["BLOB_READ_WRITE_TOKEN"] /\ ~e["VERCEL"]
        /\ e["POSTGRES_URL_NON_POOLING"] =>
              ~e["BLOB_READ_WRITE_TOKEN"] /\ e["VERCEL"] }

\* The process starts with any configuration; the store the configuration
\* selects holds any of the initial contents, the other two are untouched.
Init ==
    /\ env \in Environments
    /\ IF isDbEnabled THEN InitDb /\ FreshBlob /\ FreshFile
       ELSE IF isBlobEnabled THEN FreshDb /\ InitBlob /\ FreshFile
       ELSE FreshDb /\ FreshBlob /\ InitFile
    /\ InitLocals

\* ------------------------------------------------------------ handler code

\* The reducer with its comparison reversed (C6 is checked against it).
RECURSIVE reduceMax_lessThan(_, _)
reduceMax_lessThan(us, max) ==
    IF us = <<>> THEN max
    ELSE reduceMax_lessThan(Tail(us),
                            IF Head(us).id < max THEN Head(us).id ELSE max)

\* currentUsers.reduce((max, u) => (u.id > max ? u.id : max), 0)
RECURSIVE reduceMax(_, _)
reduceMax(us, max) ==
    IF us = <<>> THEN max
    ELSE reduceMax(Tail(us), IF Head(us).id > max THEN Head(us).id ELSE max)

\* nextId without the + 1 (C7 is checked against it).
nextId_noIncrement(currentUsers) == reduceMax(currentUsers, 0)

\* const nextId = currentUsers.reduce(...) + 1
nextId(currentUsers) == reduceMax(currentUsers, 0) + 1

\* The SELECT with ORDER BY id DESC (C2 is checked against it).
RECURSIVE OrderById_desc(_)
OrderById_desc(rs) ==
    IF rs = {} THEN <<>>
    ELSE LET first == CHOOSE r \in rs : \A q \in rs : r.id >= q.id
         IN  <<first>> \o OrderById_desc(rs \ {first})

\* SELECT id, name, email FROM users ORDER BY id ASC
RECURSIVE OrderById(_)
OrderById(rs) ==
    IF rs = {} THEN <<>>
    ELSE LET first == CHOOSE r \in rs : \A q \in rs : r.id <= q.id
         IN  <<first>> \o OrderById(rs \ {first})

Touch(p, backend) == touched' = [touched EXCEPT ![p] = @ \cup {backend}]

Outcome(ok) == IF ok THEN "ok" ELSE "failed"

\* The error-handling middleware, lines 245-248: it answers 500.
errorHandler(p) ==
    /\ status' = [status EXCEPT ![p] = 500]
    /\ sent' = [sent EXCEPT ![p] = @ + 1]
    /\ pc' = [pc EXCEPT ![p] = "done"]

\* The promise of the async handler of lines 190-211 rejects: renderHome
\* threw outside any try.  What follows is the framework's, and the source
\* does not fix its version: Express 4 ignores the promise a handler
\* returns, so nothing is ever sent for the request; Express 5 passes the
\* rejection to the error-handling middleware.
HandlerRejects(p) ==
    \/ /\ pc' = [pc EXCEPT ![p] = "rejected"]
       /\ UNCHANGED <<status, sent>>
    \/ errorHandler(p)

\* What runs when the readUsers call of request p settles: ok with the
\* collection val, or with a throw.
AfterRead(p, ok, val) ==
    CASE ctx[p] = "post_try" ->
            \* lines 199-203 on success, the catch of lines 205-208 on a throw
            IF ok
            THEN /\ cur' = [cur EXCEPT ![p] =
                        Append(val, User(nextId(val), req[p].name, req[p].email))]
                 /\ pc' = [pc EXCEPT ![p] = writeUsers]
                 /\ UNCHANGED <<ctx, status, sent, hist>>
            ELSE /\ status' = [status EXCEPT ![p] = 500]
                 /\ ctx' = [ctx EXCEPT ![p] = "post_catch"]
                 /\ pc' = [pc EXCEPT ![p] = readUsers]
                 /\ UNCHANGED <<cur, sent, hist>>
      [] ctx[p] \in {"post_400", "post_catch"} ->
            \* renderHome, lines 131-134: res.render sends the response; a
            \* throw rejects the handler's promise
            IF ok
            THEN /\ sent' = [sent EXCEPT ![p] = @ + 1]
                 /\ pc' = [pc EXCEPT ![p] = "done"]
                 /\ UNCHANGED <<ctx, cur, status, hist>>
            ELSE /\ HandlerRejects(p)
                 /\ UNCHANGED <<ctx, cur, hist>>
      [] ctx[p] = "get_file" ->
            \* lines 155-160
            /\ status' = [status EXCEPT ![p] = IF ok THEN 200 ELSE 500]
            /\ sent' = [sent EXCEPT ![p] = @ + 1]
            /\ cur' = [cur EXCEPT ![p] = val]
            /\ pc' = [pc EXCEPT ![p] = "done"]
            /\ UNCHANGED <<ctx, hist>>
      [] ctx[p] = "call" ->
            /\ hist' = [hist EXCEPT !.read = Outcome(ok), !.val = val]
            /\ pc' = [pc EXCEPT ![p] = "idle"]
            /\ ctx' = [ctx EXCEPT ![p] = "none"]
            /\ UNCHANGED <<cur, status, sent>>

\* What runs when the writeUsers call of request p settles.
AfterWrite(p, ok) ==
    CASE ctx[p] = "post_try" ->
            \* line 204 on success, the catch of lines 205-208 on a throw
            IF ok
            THEN /\ status' = [status EXCEPT ![p] = 302]
                 /\ sent' = [sent EXCEPT ![p] = @ + 1]
                 /\ pc' = [pc EXCEPT ![p] = "done"]
                 /\ UNCHANGED <<ctx, cur, hist>>
            ELSE /\ status' = [status EXCEPT ![p] = 500]
                 /\ ctx' = [ctx EXCEPT ![p] = "post_catch"]
                 /\ pc' = [pc EXCEPT ![p] = readUsers]
                 /\ UNCHANGED <<cur, sent, hist>>
      [] ctx[p] = "call" ->
            /\ hist' = IF ok THEN [hist EXCEPT !.write = "ok"]
                       ELSE [NoHist EXCEPT !.write = "failed"]
            /\ pc' = [pc EXCEPT ![p] = "idle"]
            /\ ctx' = [ctx EXCEPT ![p] = "none"]
            /\ cur' = [cur EXCEPT ![p] = <<>>]
            /\ UNCHANGED <<status, sent>>

\* ------------------------------------------------------------------ steps

\* The request stays inside its store call and suspends at the next await.
Goto(p, label) ==
    /\ pc' = [pc EXCEPT ![p] = label]
    /\ UNCHANGED <<ctx, cur, status, sent, hist>>

\* The awaited I/O call rejected (or, for fetch, answered with a status
\* that is not ok).
Fails(p, call) == fault' = [fault EXCEPT ![p] = call]

Frame == UNCHANGED <<env, req, nreq>>

\* ensureDataFileExists, line 46: await fsPromises.mkdir(dataDir, {recursive}).
\* A failure is rethrown by the catch of lines 50-53.
ensureDataFileExists_mkdir(p) ==
    /\ pc[p] = "r_file_mkdir"
    /\ Touch(p, "file")
    /\ \/ /\ dirExists' = TRUE
          /\ Goto(p, "r_file_access")
          /\ UNCHANGED <<fileExists, fileText, fault>>
       \/ /\ Fails(p, "mkdir")
          /\ AfterRead(p, FALSE, <<>>)
          /\ UNCHANGED fileVars
    /\ UNCHANGED <<blobVars, dbVars, idx>>
    /\ Frame

\* ensureDataFileExists writing '[]' whether or not the file exists (C8 is
\* checked against it).
ensureDataFileExists_access_unconditional(p) ==
    /\ pc[p] = "r_file_access"
    /\ Touch(p, "file")
    /\ Goto(p, "r_file_create")
    /\ UNCHANGED <<store, idx, fault>>
    /\ Frame

\* ensureDataFileExists, line 47: await fsPromises.access(dataFile, F_OK);
\* its rejection runs the .catch callback of line 48.
ensureDataFileExists_access(p) ==
    /\ pc[p] = "r_file_access"
    /\ Touch(p, "file")
    /\ Goto(p, IF fileExists THEN "r_file_read" ELSE "r_file_create")
    /\ UNCHANGED <<store, idx, fault>>
    /\ Frame

\* ensureDataFileExists, line 48: await fsPromises.writeFile(dataFile, '[]').
\* A failure is rethrown by the catch of lines 50-53.
ensureDataFileExists_create(p) ==
    /\ pc[p] = "r_file_create"
    /\ Touch(p, "file")
    /\ \/ /\ dirExists
          /\ fileExists' = TRUE
          /\ fileText' = EmptyArrayText
          /\ Goto(p, "r_file_read")
          /\ UNCHANGED <<dirExists, fault>>
       \/ /\ Fails(p, "create")
          /\ AfterRead(p, FALSE, <<>>)
          /\ UNCHANGED fileVars
    /\ UNCHANGED <<blobVars, dbVars, idx>>
    /\ Frame

\* readUsersFromFile with the readFile inside the try, so that its failure
\* returns [] too (C9 is checked against it).
readUsersFromFile_catchAll(p) ==
    /\ pc[p] = "r_file_read"
    /\ Touch(p, "file")
    /\ \/ /\ fileExists
          /\ AfterRead(p, TRUE, ParsedOrEmpty(fileText))
          /\ UNCHANGED fault
       \/ /\ Fails(p, "readFile")
          /\ AfterRead(p, TRUE, <<>>)
    /\ UNCHANGED <<store, idx>>
    /\ Frame

\* readUsersFromFile, lines 58-64: await fsPromises.readFile, outside the
\* try; then the parse inside it.
readUsersFromFile(p) ==
    /\ pc[p] = "r_file_read"
    /\ Touch(p, "file")
    /\ \/ /\ fileExists
          /\ AfterRead(p, TRUE, ParsedOrEmpty(fileText))
          /\ UNCHANGED fault
       \/ /\ Fails(p, "readFile")
          /\ AfterRead(p, FALSE, <<>>)
    /\ UNCHANGED <<store, idx>>
    /\ Frame

\* writeUsersToFile, line 68: one whole-file write; it fails when dataDir is
\* missing (writeUsersToFile does not create it).
writeUsersToFile(p) ==
    /\ pc[p] = "w_file_write"
    /\ Touch(p, "file")
    /\ \/ /\ dirExists
          /\ fileExists' = TRUE
          /\ fileText' = JSONstringify(cur[p])
          /\ AfterWrite(p, TRUE)
          /\ UNCHANGED <<dirExists, fault>>
       \/ /\ Fails(p, "writeFile")
          /\ AfterWrite(p, FALSE)
          /\ UNCHANGED fileVars
    /\ UNCHANGED <<blobVars, dbVars, idx>>
    /\ Frame

\* readUsersFromBlob without its try / catch: a failing list() throws (C5 is
\* checked against it).
readUsersFromBlob_list_uncaught(p) ==
    /\ pc[p] = "r_blob_list"
    /\ Touch(p, "blob")
    /\ \/ blobExists /\ Goto(p, "r_blob_fetch") /\ UNCHANGED fault
       \/ ~blobExists /\ AfterRead(p, TRUE, <<>>) /\ UNCHANGED fault
       \/ Fails(p, "list") /\ AfterRead(p, FALSE, <<>>)
    /\ UNCHANGED <<store, idx>>
    /\ Frame

\* readUsersFromBlob, lines 73-75: await list(...); no entry, or a throw
\* caught at line 80, returns [].  The store holds no other object under
\* the prefix blobKey, so the entry listed is the one at blobKey.
readUsersFromBlob_list(p) ==
    /\ pc[p] = "r_blob_list"
    /\ Touch(p, "blob")
    /\ \/ blobExists /\ Goto(p, "r_blob_fetch") /\ UNCHANGED fault
       \/ ~blobExists /\ AfterRead(p, TRUE, <<>>) /\ UNCHANGED fault
       \/ Fails(p, "list") /\ AfterRead(p, TRUE, <<>>)
    /\ UNCHANGED <<store, idx>>
    /\ Frame

\* readUsersFromBlob, lines 76-79: await fetch(entry.url), await res.json().
\* The body is the object's content when the fetch is served; res.json()
\* only decodes it, so both awaits are one step.  A rejected fetch, a
\* status that is not ok and a body that does not parse all return [].
readUsersFromBlob_fetch(p) ==
    /\ pc[p] = "r_blob_fetch"
    /\ Touch(p, "blob")
    /\ \/ AfterRead(p, TRUE, ParsedOrEmpty(blobText)) /\ UNCHANGED fault
       \/ Fails(p, "fetch") /\ AfterRead(p, TRUE, <<>>)
    /\ UNCHANGED <<store, idx>>
    /\ Frame

\* writeUsersToBlob with addRandomSuffix: true: the put creates an object
\* under another pathname and leaves the one at blobKey as it was (C3 is
\* checked against it).
writeUsersToBlob_randomSuffix(p) ==
    /\ pc[p] = "w_blob_put"
    /\ Touch(p, "blob")
    /\ \/ AfterWrite(p, TRUE) /\ UNCHANGED fault
       \/ Fails(p, "put") /\ AfterWrite(p, FALSE)
    /\ UNCHANGED <<store, idx>>
    /\ Frame

\* writeUsersToBlob, lines 86-90: await put(blobKey, ...), no random suffix.
writeUsersToBlob(p) ==
    /\ pc[p] = "w_blob_put"
    /\ Touch(p, "blob")
    /\ \/ /\ blobExists' = TRUE
          /\ blobText' = JSONstringify(cur[p])
          /\ AfterWrite(p, TRUE)
          /\ UNCHANGED fault
       \/ /\ Fails(p, "put")
          /\ AfterWrite(p, FALSE)
          /\ UNCHANGED blobVars
    /\ UNCHANGED <<fileVars, dbVars, idx>>
    /\ Frame

\* ensureUsersTable, lines 106-114, awaited first by readUsersFromDb and by
\* writeUsersToDb: CREATE TABLE IF NOT EXISTS users (id SERIAL PRIMARY KEY..).
ensureUsersTable(p) ==
    /\ pc[p] \in {"r_db_ensure", "w_db_ensure"}
    /\ Touch(p, "db")
    /\ \/ /\ tableExists' = TRUE
          /\ Goto(p, IF pc[p] = "r_db_ensure" THEN "r_db_select"
                     ELSE "w_db_truncate")
          /\ UNCHANGED fault
       \/ /\ Fails(p, "createTable")
          /\ UNCHANGED tableExists
          /\ IF pc[p] = "r_db_ensure"
             THEN AfterRead(p, FALSE, <<>>)
             ELSE AfterWrite(p, FALSE)
    /\ UNCHANGED <<fileVars, blobVars, rows, dbSeq, idx>>
    /\ Frame

\* readUsersFromDb, lines 118-119.
readUsersFromDb(p) ==
    /\ pc[p] = "r_db_select"
    /\ Touch(p, "db")
    /\ \/ /\ tableExists
          /\ AfterRead(p, TRUE, OrderById(rows))
          /\ UNCHANGED fault
       \/ /\ Fails(p, "select")
          /\ AfterRead(p, FALSE, <<>>)
    /\ UNCHANGED <<store, idx>>
    /\ Frame

\* writeUsersToDb without the TRUNCATE of line 125 (C4 is checked against
\* it).
writeUsersToDb_truncate_omitted(p) ==
    /\ pc[p] = "w_db_truncate"
    /\ Touch(p, "db")
    /\ idx' = [idx EXCEPT ![p] = 1]
    /\ IF cur[p] = <<>> THEN AfterWrite(p, TRUE) ELSE Goto(p, "w_db_insert")
    /\ UNCHANGED <<store, fault>>
    /\ Frame

\* writeUsersToDb with a TRUNCATE that leaves the sequence where it was (C11
\* is checked against it).
writeUsersToDb_truncate_keepIdentity(p) ==
    /\ pc[p] = "w_db_truncate"
    /\ Touch(p, "db")
    /\ \/ /\ tableExists
          /\ rows' = {}
          /\ idx' = [idx EXCEPT ![p] = 1]
          /\ IF cur[p] = <<>>
             THEN AfterWrite(p, TRUE)
             ELSE Goto(p, "w_db_insert")
          /\ UNCHANGED <<dbSeq, fault>>
       \/ /\ Fails(p, "truncate")
          /\ AfterWrite(p, FALSE)
          /\ UNCHANGED <<rows, dbSeq, idx>>
    /\ UNCHANGED <<fileVars, blobVars, tableExists>>
    /\ Frame

\* writeUsersToDb, line 125: TRUNCATE TABLE users RESTART IDENTITY; then the
\* for loop of line 126 starts, or the call returns for an empty collection.
writeUsersToDb_truncate(p) ==
    /\ pc[p] = "w_db_truncate"
    /\ Touch(p, "db")
    /\ \/ /\ tableExists
          /\ rows' = {}
          /\ dbSeq' = 1
          /\ idx' = [idx EXCEPT ![p] = 1]
          /\ IF cur[p] = <<>>
             THEN AfterWrite(p, TRUE)
             ELSE Goto(p, "w_db_insert")
          /\ UNCHANGED fault
       \/ /\ Fails(p, "truncate")
          /\ AfterWrite(p, FALSE)
          /\ UNCHANGED <<rows, dbSeq, idx>>
    /\ UNCHANGED <<fileVars, blobVars, tableExists>>
    /\ Frame

\* An INSERT that sends the id of u as well (C10 is checked against it).
InsertedRow_keepsId(u) == User(u.id, u.name, u.email)

\* The row INSERT INTO users (name, email) VALUES (u.name, u.email) adds:
\* the id is the next value of the sequence, the id of u is not sent.
InsertedRow(u) == User(dbSeq, u.name, u.email)

\* writeUsersToDb, lines 126-128: one INSERT per iteration of the loop.  The
\* primary key rejects a row whose id is already in the table.
writeUsersToDb_insert(p) ==
    /\ pc[p] = "w_db_insert"
    /\ Touch(p, "db")
    /\ LET row == InsertedRow(cur[p][idx[p]])
       IN  \/ /\ tableExists
              /\ \A r \in rows : r.id # row.id
              /\ rows' = rows \cup {row}
              /\ dbSeq' = dbSeq + 1
              /\ idx' = [idx EXCEPT ![p] = @ + 1]
              /\ IF idx[p] = Len(cur[p])
                 THEN AfterWrite(p, TRUE)
                 ELSE Goto(p, "w_db_insert")
              /\ UNCHANGED fault
           \/ /\ Fails(p, "insert")
              /\ AfterWrite(p, FALSE)
              /\ UNCHANGED <<rows, dbSeq, idx>>
    /\ UNCHANGED <<fileVars, blobVars, tableExists>>
    /\ Frame

\* One await of a pending store call of request p.
Step(p) ==
    \/ ensureDataFileExists_mkdir(p)
    \/ ensureDataFileExists_access(p)
    \/ ensureDataFileExists_create(p)
    \/ readUsersFromFile(p)
    \/ writeUsersToFile(p)
    \/ readUsersFromBlob_list(p)
    \/ readUsersFromBlob_fetch(p)
    \/ writeUsersToBlob(p)
    \/ ensureUsersTable(p)
    \/ readUsersFromDb(p)
    \/ writeUsersToDb_truncate(p)
    \/ writeUsersToDb_insert(p)

\* ---------------------------------------------------------------- requests

Begin(p, kind, name, email, site, code) ==
    /\ pc[p] = "idle"
    /\ nreq < MaxReq
    /\ nreq' = nreq + 1
    /\ req' = [req EXCEPT ![p] = [kind |-> kind, name |-> name, email |-> email]]
    /\ ctx' = [ctx EXCEPT ![p] = site]
    /\ status' = [status EXCEPT ![p] = code]
    /\ pc' = [pc EXCEPT ![p] = readUsers]
    /\ UNCHANGED <<env, store, cur, idx, touched, sent, fault, hist>>

\* app.post('/users'), lines 190-199: trim both fields; an empty one sets
\* status 400 and renders the home page, otherwise the try block starts.
PostUsers(p, rawName, rawEmail) ==
    LET name == trim(rawName)
        email == trim(rawEmail)
    IN  IF name = <<>> \/ email = <<>>
        THEN Begin(p, "post", name, email, "post_400", 400)
        ELSE Begin(p, "post", name, email, "post_try", 200)

\* app.get('/api/users-file'), lines 154-156.
GetUsersFile(p) == Begin(p, "get", <<>>, <<>>, "get_file", 200)

\* The response is out, or the handler's promise rejected and none will
\* be: the request is over and its slot serves the next one.
Complete(p) ==
    /\ pc[p] \in {"done", "rejected"}
    /\ pc' = [pc EXCEPT ![p] = "idle"]
    /\ ctx' = [ctx EXCEPT ![p] = "none"]
    /\ req' = [req EXCEPT ![p] = NoReq]
    /\ cur' = [cur EXCEPT ![p] = <<>>]
    /\ idx' = [idx EXCEPT ![p] = 0]
    /\ touched' = [touched EXCEPT ![p] = {}]
    /\ status' = [status EXCEPT ![p] = 200]
    /\ sent' = [sent EXCEPT ![p] = 0]
    /\ fault' = [fault EXCEPT ![p] = "none"]
    /\ UNCHANGED <<env, store, nreq, hist>>

Next ==
    \/ \E p \in Procs : \E body \in Forms : PostUsers(p, body.name, body.email)
    \/ \E p \in Procs : GetUsersFile(p)
    \/ \E p \in Procs : Step(p)
    \/ \E p \in Procs : Complete(p)

\* The HTTP server: up to MaxReq requests, two in flight at a time.
Spec == Init /\ [][Next]_vars

\* ------------------------------------------------------- sequential caller

BeginCall(p, arg, entry) ==
    /\ pc[p] = "idle"
    /\ ctx' = [ctx EXCEPT ![p] = "call"]
    /\ cur' = [cur EXCEPT ![p] = arg]
    /\ idx' = [idx EXCEPT ![p] = 0]
    /\ touched' = [touched EXCEPT ![p] = {}]
    /\ fault' = [fault EXCEPT ![p] = "none"]
    /\ pc' = [pc EXCEPT ![p] = entry]
    /\ UNCHANGED <<env, store, req, status, sent, nreq>>

\* readAll() of the storage contract.
CallReadUsers(p) ==
    /\ BeginCall(p, <<>>, readUsers)
    /\ hist' = [hist EXCEPT !.read = "pending", !.val = <<>>,
                            !.existed = fileExists, !.text = fileText]

\* writeAll(collection) of the storage contract.
CallWriteUsers(p, fileUsers) ==
    /\ BeginCall(p, fileUsers, writeUsers)
    /\ hist' = [NoHist EXCEPT
                   !.write = "pending", !.arg = fileUsers,
                   !.replaced = IF hist.write = "ok"
                                THEN Range(Pairs(hist.arg)) ELSE {}]

NextStore ==
    \/ CallReadUsers(Caller)
    \/ \E fileUsers \in Collections : CallWriteUsers(Caller, fileUsers)
    \/ Step(Caller)

\* One caller using the storage contract directly, one call after the other.
SpecStore == Init /\ [][NextStore]_vars

\* ------------------------------------------------------------------ claims

\* The three configuration signals of the spec.
RelationalConfigured ==
    env["POSTGRES_URL"] \/ env["POSTGRES_PRISMA_URL"]
        \/ env["POSTGRES_URL_NON_POOLING"]
TokenPresent == env["BLOB_READ_WRITE_TOKEN"]
DeployedMarker == env["VERCEL"]
ObjectSelected == ~RelationalConfigured /\ (TokenPresent \/ DeployedMarker)
FileSelected == ~RelationalConfigured /\ ~TokenPresent /\ ~DeployedMarker

\* What a readAll() that meets no failure returns in this state.
StoredUsers ==
    IF RelationalConfigured THEN OrderById(rows)
    ELSE IF ObjectSelected THEN ParsedOrEmpty(blobText)
    ELSE ParsedOrEmpty(fileText)

Last(s) == s[Len(s)]
Front(s) == SubSeq(s, 1, Len(s) - 1)
SetMax(S) == CHOOSE m \in S : \A x \in S : x <= m
Corrupt(text) == JSONparse(text).kind # "array"

\* The form submission of request p was answered with the redirect.
PostOk(p) == req[p].kind = "post" /\ pc[p] = "done" /\ status[p] = 302

\* C1: the backend is chosen by the priority relational > object > file.
\* Whatever the configuration, a request calls the I/O of one backend only:
\* the relational one whenever a POSTGRES_* variable is set, else the object
\* one when the token or the deployed marker is present, else the file one;
\* the two other stores receive no call and stay as they were.
C1_BackendPriority ==
    /\ \A p \in Procs :
          /\ RelationalConfigured => touched[p] \subseteq {"db"}
          /\ ObjectSelected => touched[p] \subseteq {"blob"}
          /\ FileSelected => touched[p] \subseteq {"file"}
          /\ pc[p] \in {"done", "rejected"} => Cardinality(touched[p]) = 1
    /\ RelationalConfigured => FreshBlob /\ FreshFile
    /\ ObjectSelected => FreshDb /\ FreshFile
    /\ FileSelected => FreshDb /\ FreshBlob

\* A form submission that read and wrote with relational, token and marker
\* all configured, and touched the relational backend alone.
C1_Witness ==
    /\ RelationalConfigured /\ TokenPresent /\ DeployedMarker
    /\ \E p \in Procs : PostOk(p) /\ touched[p] = {"db"}

RoundTrips ==
    /\ Pairs(hist.val) = Pairs(hist.arg)
    /\ ~RelationalConfigured => hist.val = hist.arg

C3_SnapshotWriteDiscards ==
    \A p, q \in Procs :
        (/\ p # q
         /\ ~RelationalConfigured
         /\ PostOk(p) /\ PostOk(q)
         /\ Front(cur[p]) = Front(cur[q]))
            => /\ StoredUsers \in {cur[p], cur[q]}
               /\ Len(StoredUsers) = Len(Front(cur[p])) + 1

\* Two submissions read the base [{id: 1}], both were answered with the
\* redirect, and the store holds the record of q but not the record of p.
C3_LostUpdate ==
    \E p, q \in Procs :
        /\ p # q
        /\ PostOk(p) /\ PostOk(q)
        /\ Front(cur[p]) = <<BaseUser>> /\ Front(cur[q]) = <<BaseUser>>
        /\ Last(cur[p]).name # Last(cur[q]).name
        /\ StoredUsers = cur[q]
        /\ \A i \in DOMAIN StoredUsers : StoredUsers[i].name # Last(cur[p]).name
                                         \/ StoredUsers[i].id # Last(cur[p]).id

\* C4: on the relational backend, after writeAll(C1) and then writeAll(C2)
\* have completed, C2 disjoint from C1, readAll() returns the records of C2
\* and nothing else: the table has as many rows as C2 and none of C1.
C4_FullReplace ==
    (/\ RelationalConfigured
     /\ hist.write = "ok" /\ hist.read = "ok"
     /\ hist.replaced \cap Range(Pairs(hist.arg)) = {})
        => /\ Pairs(hist.val) = Pairs(hist.arg)
           /\ Range(Pairs(hist.val)) \cap hist.replaced = {}
           /\ Cardinality(rows) = Len(hist.arg)

\* A non-empty C1 was replaced by a non-empty disjoint C2, then read.
C4_Witness ==
    /\ RelationalConfigured
    /\ hist.write = "ok" /\ hist.read = "ok"
    /\ hist.replaced # {} /\ hist.arg # <<>>
    /\ hist.replaced \cap Range(Pairs(hist.arg)) = {}
    /\ Pairs(hist.val) = Pairs(hist.arg)

ReturnsEmpty == hist.read = "ok" /\ hist.val = <<>>

ObjectDegrades ==
    ~blobExists \/ Corrupt(blobText) \/ fault[Caller] \in {"list", "fetch"}

WritePcs == {"w_file_write", "w_blob_put", "w_db_ensure", "w_db_truncate",
             "w_db_insert"}

\* C6: the record a form submission appends and passes to writeUsers has
\* id m + 1 when the collection it read has maximum id m, and id 1 when the
\* collection it read is empty.
C6_IdAssignment ==
    \A p \in Procs :
        (ctx[p] = "post_try" /\ pc[p] \in WritePcs \cup {"done"}) =>
            /\ cur[p] # <<>>
            /\ LET read == Front(cur[p])
               IN  Last(cur[p]).id =
                      IF read = <<>> THEN 1
                      ELSE SetMax({read[i].id : i \in DOMAIN read}) + 1

\* One submission read [] and appended id 1; the other read that collection
\* and is about to write it with a second record of id 2.
C6_Witness ==
    \E p, q \in Procs :
        /\ PostOk(p) /\ Len(cur[p]) = 1 /\ cur[p][1].id = 1
        /\ ctx[q] = "post_try" /\ pc[q] \in WritePcs
        /\ Front(cur[q]) = cur[p] /\ Last(cur[q]).id = 2

UniquePositiveIds(us) ==
    /\ UniqueIds(us)
    /\ \A i \in DOMAIN us : us[i].id \in Nat \ {0}

\* C7: whatever the backend and the interleaving of the form submissions,
\* no two records of the stored collection share an id and every id is a
\* positive integer.
C7_UniqueIds ==
    /\ UniquePositiveIds(ParsedOrEmpty(fileText))
    /\ UniquePositiveIds(ParsedOrEmpty(blobText))
    /\ \A r, q \in rows : r.id = q.id => r = q
    /\ \A r \in rows : r.id \in Nat \ {0}

\* Two submissions were stored one after the other on top of the base.
C7_Witness ==
    /\ Len(StoredUsers) = 3
    /\ \E p \in Procs : PostOk(p) /\ cur[p] = StoredUsers

Renumbered(us) == [i \in DOMAIN us |-> User(i, us[i].name, us[i].email)]

\* C10: on the relational backend a successful writeAll(C), |C| = n, leaves
\* exactly n rows, the records of C in order with the ids 1..n in place of
\* their own, and the readAll() that follows returns them in that order.
C10_Reassignment ==
    RelationalConfigured /\ hist.write = "ok" =>
        /\ rows = Range(Renumbered(hist.arg))
        /\ Cardinality(rows) = Len(hist.arg)
        /\ dbSeq = Len(hist.arg) + 1
        /\ hist.read = "ok" => hist.val = Renumbered(hist.arg)

\* A collection of two records with descending ids was written and read
\* back with the ids 1 and 2.
C10_Witness ==
    /\ RelationalConfigured
    /\ hist.write = "ok" /\ hist.read = "ok"
    /\ Len(hist.arg) = 2 /\ hist.arg[1].id > hist.arg[2].id
    /\ hist.val = Renumbered(hist.arg)
    /\ hist.val # hist.arg

IsPrefix(a, b) == Len(a) <= Len(b) /\ a = SubSeq(b, 1, Len(a))

\* Request p is a form submission past its validation and the only request
\* that has written so far: it is the first request, or the second beside a
\* request q in flight that only reads.
SoleWriter(p, q) ==
    /\ p # q
    /\ req[p].kind = "post" /\ ctx[p] \in {"post_try", "post_catch"}
    /\ \/ nreq = 1
       \/ /\ nreq = 2
          /\ pc[q] # "idle"
          /\ req[q].kind = "get" \/ ctx[q] = "post_400"

\* C11: relational writeAll(C) is not atomic.  While the only writer is
\* between two statements of writeAll(C), and after one of its INSERTs has
\* failed, the table holds a strict prefix of C (renumbered 1..k), the empty
\* table included; a concurrent readAll() returns the previous collection
\* or a prefix of C, and C11_Witness shows it returning a strict one.
C11_PartialWrite ==
    \A p, q \in Procs :
        RelationalConfigured /\ SoleWriter(p, q) =>
            /\ (pc[p] = "w_db_insert"
                   \/ (ctx[p] = "post_catch" /\ fault[p] = "insert")) =>
                  /\ idx[p] \in 1..Len(cur[p])
                  /\ rows = Range(SubSeq(Renumbered(cur[p]), 1, idx[p] - 1))
            /\ (/\ cur[p] # <<>>
                /\ req[q].kind = "get" /\ pc[q] = "done" /\ status[q] = 200) =>
                  \/ cur[q] = Front(cur[p])
                  \/ IsPrefix(cur[q], Renumbered(cur[p]))

\* The table held one record, the only writer is writing two, and a
\* concurrent readAll() has returned the empty collection.
C11_Witness ==
    \E p, q \in Procs :
        /\ RelationalConfigured /\ SoleWriter(p, q)
        /\ pc[p] = "w_db_insert" /\ Len(cur[p]) = 2
        /\ Front(cur[p]) # <<>>
        /\ req[q].kind = "get" /\ pc[q] = "done" /\ status[q] = 200
        /\ cur[q] = <<>>

\* The I/O calls whose failure makes readUsers or writeUsers throw (a
\* failing list or fetch makes readUsers return []).
ThrowingCalls ==
    {"mkdir", "create", "readFile", "writeFile", "put", "createTable",
     "select", "truncate", "insert"}

\* C12: every form submission gets exactly one response.  No POST /users
\* request is answered twice; when its handler has settled, exactly one
\* response has been sent, and it has status 500 when the last store call
\* that failed made readUsers or writeUsers throw.
C12_OneResponse ==
    \A p \in Procs :
        req[p].kind = "post" =>
            /\ sent[p] <= 1
            /\ pc[p] \in {"done", "rejected"} =>
                  /\ sent[p] = 1
                  /\ fault[p] \in ThrowingCalls => status[p] = 500

\* C13: a rejected form submission leaves the store unchanged.  A POST
\* /users request whose name or email is empty after trimming never starts
\* a writeUsers call; the response its handler sends when no store call
\* threw has status 400; and no step of the request changes the collection
\* readAll() returns.
C13_RejectedLeavesStore ==
    [][\A p \in Procs :
          ctx[p] = "post_400" =>
              /\ pc'[p] \notin WritePcs
              /\ (pc'[p] = "done" /\ fault'[p] \notin ThrowingCalls) =>
                    status'[p] = 400
              /\ pc'[p] # pc[p] => StoredUsers' = StoredUsers]_vars

\* C14: reads never destroy written data on the file backend.  While the
\* data file holds the collection a form submission has written, its
\* writeAll completed and the redirect sent, the content of the file
\* changes only in a step of writeUsersToFile.
C14_ReadsKeepWrittenData ==
    [][(/\ FileSelected
        /\ \E q \in Procs : PostOk(q) /\ fileText = JSONstringify(cur[q])
        /\ fileText' # fileText)
          => \E p \in Procs : pc[p] = "w_file_write" /\ pc'[p] # pc[p]]_vars

====
